---- MODULE Spec2Model ----
(***************************************************************************)
(* State-machine model of the StoreHeatmap component of src/src/heatmap.js *)
(* (the second component of the file, lines 1004-2222): the React state of *)
(* the component, one action per event handler or asynchronous callback.   *)
(* The StoreHeatmap component of src/src/heatmap.jsx is modelled beside    *)
(* it, in the variables and actions whose names start with jsx.            *)
(*                                                                         *)
(* Numbers the code computes in floating point (zoom, pan, image-space     *)
(* points) are exact rationals <<n, d>> here, d > 0, in lowest terms.      *)
(* Pointer positions are offsets inside the displayed canvas, that is      *)
(* e.clientX - rect.left and e.clientY - rect.top.                         *)
(* JavaScript array indices are kept 0-based: At(s, i) is s[i].            *)
(***************************************************************************)
EXTENDS Integers, Sequences, FiniteSets, TLC

\* ------------------------------------------------------------------------
\* Bounds of the model
\* ------------------------------------------------------------------------
\* largest number of wheel events (scroll wheel or zoom buttons) in a run
MaxWheel == 1
\* largest |pan| per axis, in displayed-canvas sizes
MaxPan == 1
\* width and height of the displayed canvas, in CSS pixels
DisplayWidth == 20
DisplayHeight == 40
\* largest number of departments in the list
MaxDepts == 2
\* largest number of points of one department
MaxPoints == 3
\* largest value of Date.now()
MaxClock == 1
\* largest number of spreadsheet reads in flight
MaxExcelLoads == 1

\* ------------------------------------------------------------------------
\* Exact rational arithmetic
\* ------------------------------------------------------------------------
Abs(n) == IF n < 0 THEN -n ELSE n

RECURSIVE GCD(_, _)
GCD(a, b) == IF b = 0 THEN a ELSE GCD(b, a % b)

Norm(n, d) ==
  LET s == IF d < 0 THEN -1 ELSE 1
      g == GCD(Abs(n), Abs(d))
  IN  <<(s * n) \div g, (s * d) \div g>>

R(n) == <<n, 1>>
RAdd(p, q) == Norm(p[1] * q[2] + q[1] * p[2], p[2] * q[2])
RSub(p, q) == Norm(p[1] * q[2] - q[1] * p[2], p[2] * q[2])
RMul(p, q) == Norm(p[1] * q[1], p[2] * q[2])
RDiv(p, q) == Norm(p[1] * q[2], p[2] * q[1])
RLt(p, q) == p[1] * q[2] < q[1] * p[2]
RLe(p, q) == p[1] * q[2] <= q[1] * p[2]
RMax(p, q) == IF RLt(p, q) THEN q ELSE p
RMin(p, q) == IF RLt(q, p) THEN q ELSE p

\* a point {x, y}
Pt(x, y) == [x |-> x, y |-> y]

\* ------------------------------------------------------------------------
\* JavaScript values
\* ------------------------------------------------------------------------
\* null or undefined is <<>>, a present value v is <<v>>
Null == <<>>
Some(v) == <<v>>
\* s[i] of a JavaScript array, i counted from 0
At(s, i) == s[i + 1]
HasIndex(s, i) == i >= 0 /\ i < Len(s)

\* Strings are sequences of characters.
Whitespace == {" "}
RECURSIVE TrimStart(_)
TrimStart(s) ==
  IF s # <<>> /\ Head(s) \in Whitespace THEN TrimStart(Tail(s)) ELSE s
RECURSIVE TrimEnd(_)
TrimEnd(s) ==
  IF s # <<>> /\ s[Len(s)] \in Whitespace
  THEN TrimEnd(SubSeq(s, 1, Len(s) - 1)) ELSE s
\* String.prototype.trim
Trim(s) == TrimEnd(TrimStart(s))

\* UTF-16 code unit of the characters the model uses
CharCode(c) ==
  CASE c = " " -> 32 [] c = "a" -> 97 [] c = "b" -> 98 [] c = "h" -> 104
\* s < t in the order of Array.prototype.sort without a comparator
RECURSIVE StringLess(_, _)
StringLess(s, t) ==
  IF t = <<>> THEN FALSE
  ELSE IF s = <<>> THEN TRUE
  ELSE IF CharCode(Head(s)) # CharCode(Head(t))
       THEN CharCode(Head(s)) < CharCode(Head(t))
       ELSE StringLess(Tail(s), Tail(t))
Sort(names) == SortSeq(names, StringLess)

\* a JavaScript object with string keys: a sequence of [key, value] records
\* in insertion order, keys distinct
HasKey(obj, k) == \E i \in 1..Len(obj) : obj[i].key = k
Get(obj, k) == (CHOOSE i \in 1..Len(obj) : obj[i].key = k)
Lookup(obj, k) == obj[Get(obj, k)].value
\* obj[k] = v
Put(obj, k, v) ==
  IF HasKey(obj, k)
  THEN [obj EXCEPT ![Get(obj, k)] = [key |-> k, value |-> v]]
  ELSE Append(obj, [key |-> k, value |-> v])
Keys(obj) == [i \in 1..Len(obj) |-> obj[i].key]
\* obj[k] || 0
LookupOrZero(obj, k) ==
  IF HasKey(obj, k) /\ Lookup(obj, k) # 0 THEN Lookup(obj, k) ELSE 0

\* ------------------------------------------------------------------------
\* Inputs
\* ------------------------------------------------------------------------
\* the floor plan files the user can select
Images == {1, 2}
\* canvas.width / rect.width = canvas.height / rect.height: the ratio of the
\* canvas buffer (the image's native size) to its displayed size
Scales == {1, 2}
\* pointer positions: the top left corner and the centre of the canvas
Centre == Pt(Norm(DisplayWidth, 2), Norm(DisplayHeight, 2))
Positions == {Pt(R(0), R(0)), Centre}
\* the texts the user can type into the manual name entry
TypedNames == {<<>>, <<" ">>, <<"a">>, <<"b", " ">>}

\* a spreadsheet row of sheet_to_json(worksheet, {header: "A"}): a missing
\* cell is Null, a numeric cell n is Some(n); column A holds a string
Row(a, b, c) == [A |-> a, B |-> b, C |-> c]
HeaderRow == Row(<<"h">>, Null, Null)
\* the spreadsheets the user can select
Sheets ==
  { <<>>,
    <<HeaderRow, Row(<<"a">>, Some(1), Some(2)), Row(<<"b">>, Some(0), Some(1))>>,
    <<HeaderRow, Row(<<"a">>, Some(1), Some(2)), Row(<<"a">>, Some(2), Some(1))>>,
    <<HeaderRow, Row(<<" ">>, Some(2), Some(1)), Row(<<>>, Some(1), Some(2))>>,
    <<HeaderRow, Row(<<"a">>, Some(1), Some(0)), Row(<<"b">>, Some(2), Null)>> }

\* ------------------------------------------------------------------------
\* State
\* ------------------------------------------------------------------------
VARIABLES
  floorPlanImage,      \* Null or Some(image)
  salesData,           \* Null or Some(object name -> sales)
  departments,         \* sequence of [id, name, coords, sales]
  availableDepts,      \* sequence of names
  selectedDepartment,  \* Null or Some(index into departments)
  mode,                \* "view" or "draw"
  heatmapVisible,      \* the Show Sales Heatmap checkbox
  showDeptSelector,
  newDeptName,
  maxSales,
  zoom,                \* rational
  pan,                 \* point of rationals
  isDragging,
  dragStart,           \* point of rationals
  canvasScale,         \* buffer size / displayed size of the canvas
  now,                 \* Date.now()
  fileInput,           \* Null or Some(file the floor plan input holds)
  imageLoads,          \* per image file: "idle", "reading" or "decoding"
  excelLoads,          \* number of spreadsheet reads in flight
  wheelCount,          \* number of wheel events so far
  lastEvent            \* the handler that ran last, and how it ended

\* the state of the component of heatmap.jsx
VARIABLES
  jsxFloorPlanImage,       \* Null or Some(image)
  jsxSalesData,            \* Null or Some(object name -> sales)
  jsxDepartments,          \* sequence of [id, name, coords, sales]
  jsxSelectedDepartment,   \* Null or Some(index into jsxDepartments)
  jsxMode,                 \* "view" or "draw"
  jsxMaxSales,
  jsxShowDeptSelector,
  jsxNewDeptName,
  jsxAvailableDepts,       \* sequence of names
  jsxCanvasScale,          \* buffer size / displayed size of the canvas
  jsxImageLoad,            \* "idle", "reading" or "decoding"
  jsxExcelLoads            \* number of spreadsheet reads in flight

jsxVars ==
  <<jsxFloorPlanImage, jsxSalesData, jsxDepartments, jsxSelectedDepartment,
    jsxMode, jsxMaxSales, jsxShowDeptSelector, jsxNewDeptName,
    jsxAvailableDepts, jsxCanvasScale, jsxImageLoad, jsxExcelLoads>>

\* the state of the component of heatmap.js, the clock and lastEvent apart
jsVars ==
  <<floorPlanImage, salesData, departments, availableDepts,
    selectedDepartment, mode, showDeptSelector, newDeptName, maxSales,
    zoom, pan, isDragging, dragStart, canvasScale, imageLoads,
    excelLoads, wheelCount, heatmapVisible, fileInput>>

vars ==
  <<floorPlanImage, salesData, departments, availableDepts,
    selectedDepartment, mode, showDeptSelector, newDeptName, maxSales,
    zoom, pan, isDragging, dragStart, canvasScale, now, imageLoads,
    excelLoads, wheelCount, lastEvent, heatmapVisible, fileInput, jsxVars>>

fileVars == <<imageLoads, excelLoads>>
salesVars == <<salesData, availableDepts, maxSales>>
deptVars == <<departments, selectedDepartment, mode>>
selectorVars == <<showDeptSelector, newDeptName>>
viewVars == <<zoom, pan>>
dragVars == <<isDragging, dragStart>>
envVars == <<canvasScale, now>>

Event(op, result) == [op |-> op, result |-> result]

\* useState initial values of heatmap.jsx, lines 6-27
JsxInit ==
  /\ jsxFloorPlanImage = Null
  /\ jsxSalesData = Null
  /\ jsxDepartments = <<>>
  /\ jsxSelectedDepartment = Null
  /\ jsxMode = "view"
  /\ jsxMaxSales = 0
  /\ jsxShowDeptSelector = FALSE
  /\ jsxNewDeptName = <<>>
  /\ jsxAvailableDepts = <<>>
  /\ jsxCanvasScale = 1
  /\ jsxImageLoad = "idle"
  /\ jsxExcelLoads = 0

\* useState initial values, lines 1006-1031
Init ==
  /\ floorPlanImage = Null
  /\ salesData = Null
  /\ departments = <<>>
  /\ availableDepts = <<>>
  /\ selectedDepartment = Null
  /\ mode = "view"
  /\ heatmapVisible = TRUE
  /\ showDeptSelector = FALSE
  /\ newDeptName = <<>>
  /\ maxSales = 0
  /\ zoom = R(1)
  /\ pan = Pt(R(0), R(0))
  /\ isDragging = FALSE
  /\ dragStart = Pt(R(0), R(0))
  /\ canvasScale = 1
  /\ now = 0
  /\ imageLoads = [i \in Images |-> "idle"]
  /\ excelLoads = 0
  /\ wheelCount = 0
  /\ fileInput = Null
  /\ lastEvent = Event("mount", "ok")
  /\ JsxInit

\* ------------------------------------------------------------------------
\* File handling
\* ------------------------------------------------------------------------
\* handleImageUpload: the user selects image file i; the file read starts
handleImageUpload(i) ==
  /\ imageLoads[i] = "idle"
  /\ imageLoads' = [imageLoads EXCEPT ![i] = "reading"]
  /\ fileInput' = Some(i)
  /\ lastEvent' = Event("handleImageUpload", "ok")
  /\ UNCHANGED <<floorPlanImage, salesVars, deptVars, selectorVars, viewVars,
                 dragVars, envVars, excelLoads, wheelCount, heatmapVisible,
                 jsxVars>>

\* reader.onload of handleImageUpload: the decode of the image starts
imageReaderOnload(i) ==
  /\ imageLoads[i] = "reading"
  /\ imageLoads' = [imageLoads EXCEPT ![i] = "decoding"]
  /\ lastEvent' = Event("imageReaderOnload", "ok")
  /\ UNCHANGED <<floorPlanImage, salesVars, deptVars, selectorVars, viewVars,
                 dragVars, envVars, excelLoads, wheelCount, heatmapVisible,
                 fileInput, jsxVars>>

\* img.onload clearing the departments and keeping mode and selection
imgOnloadKeepsMode(i, s) ==
  /\ imageLoads[i] = "decoding"
  /\ imageLoads' = [imageLoads EXCEPT ![i] = "idle"]
  /\ floorPlanImage' = Some(i)
  /\ zoom' = R(1)
  /\ pan' = Pt(R(0), R(0))
  /\ departments' = <<>>
  /\ salesData' = Null
  /\ availableDepts' = <<>>
  /\ maxSales' = 0
  /\ canvasScale' = s
  /\ lastEvent' = Event("imgOnload", "ok")
  /\ UNCHANGED <<selectedDepartment, mode, selectorVars, dragVars, now,
                 excelLoads, wheelCount, heatmapVisible, fileInput, jsxVars>>

\* img.onload resetting the view only
imgOnloadViewOnly(i, s) ==
  /\ imageLoads[i] = "decoding"
  /\ imageLoads' = [imageLoads EXCEPT ![i] = "idle"]
  /\ floorPlanImage' = Some(i)
  /\ zoom' = R(1)
  /\ pan' = Pt(R(0), R(0))
  /\ canvasScale' = s
  /\ lastEvent' = Event("imgOnload", "ok")
  /\ UNCHANGED <<salesVars, deptVars, selectorVars, dragVars, now, excelLoads,
                 wheelCount, heatmapVisible, fileInput, jsxVars>>

\* img.onload of handleImageUpload; the layout gives the canvas its
\* displayed size, hence the ratio s of buffer size to displayed size
imgOnload(i, s) ==
  /\ imageLoads[i] = "decoding"
  /\ imageLoads' = [imageLoads EXCEPT ![i] = "idle"]
  /\ floorPlanImage' = Some(i)
  /\ zoom' = R(1)
  /\ pan' = Pt(R(0), R(0))
  /\ departments' = <<>>
  /\ salesData' = Null
  /\ availableDepts' = <<>>
  /\ maxSales' = 0
  /\ selectedDepartment' = Null
  /\ mode' = "view"
  /\ canvasScale' = s
  /\ lastEvent' = Event("imgOnload", "ok")
  /\ UNCHANGED <<selectorVars, dragVars, now, excelLoads, wheelCount,
                 heatmapVisible, fileInput, jsxVars>>

\* reader.onerror and img.onerror of handleImageUpload: an alert, no state
imageLoadError(i) ==
  /\ imageLoads[i] \in {"reading", "decoding"}
  /\ imageLoads' = [imageLoads EXCEPT ![i] = "idle"]
  /\ lastEvent' = Event("imageLoadError", "alert")
  /\ UNCHANGED <<floorPlanImage, salesVars, deptVars, selectorVars, viewVars,
                 dragVars, envVars, excelLoads, wheelCount, heatmapVisible,
                 fileInput, jsxVars>>

\* the sales value of a row: row.C if it is a number, otherwise
\* parseFloat(String(row.C).replace(/[^0-9.-]+/g, "")) || 0, which is 0 for
\* a missing cell
SalesValue(row) == IF row.C # Null THEN row.C[1] ELSE 0

\* the forEach over jsonData.slice(1), lines 1087-1109
RECURSIVE ProcessRows(_, _)
ProcessRows(rows, acc) ==
  IF rows = <<>> THEN acc
  ELSE LET row == Head(rows)
           deptName == row.A
           salesValue == SalesValue(row)
       IN  ProcessRows(Tail(rows),
             IF deptName # <<>>
             THEN [deptSales |-> Put(acc.deptSales, deptName, salesValue),
                   deptList |-> Append(acc.deptList, deptName),
                   maxSalesValue |-> IF salesValue > acc.maxSalesValue
                                     THEN salesValue ELSE acc.maxSalesValue]
             ELSE acc)

\* jsonData.slice(1)
Slice1(s) == IF s = <<>> THEN <<>> ELSE Tail(s)

ParseSheet(jsonData) ==
  ProcessRows(Slice1(jsonData),
              [deptSales |-> <<>>, deptList |-> <<>>, maxSalesValue |-> 0])

\* the updater of setDepartments keeping the sales of a department whose
\* name the new data lacks
SyncSalesFoundOnly(prevDepts, deptSales) ==
  [i \in 1..Len(prevDepts) |->
     IF HasKey(deptSales, prevDepts[i].name)
     THEN [prevDepts[i] EXCEPT !.sales = Lookup(deptSales, prevDepts[i].name)]
     ELSE prevDepts[i]]

\* the updater of setDepartments, lines 1117-1122
SyncSales(prevDepts, deptSales) ==
  [i \in 1..Len(prevDepts) |->
     [prevDepts[i] EXCEPT !.sales = LookupOrZero(deptSales, prevDepts[i].name)]]

\* handleExcelUpload: the user selects a spreadsheet; the file read starts
\* (the input is disabled until a floor plan is loaded)
handleExcelUpload ==
  /\ floorPlanImage # Null
  /\ excelLoads < MaxExcelLoads
  /\ excelLoads' = excelLoads + 1
  /\ lastEvent' = Event("handleExcelUpload", "ok")
  /\ UNCHANGED <<floorPlanImage, salesVars, deptVars, selectorVars, viewVars,
                 dragVars, envVars, imageLoads, wheelCount, heatmapVisible,
                 fileInput, jsxVars>>

\* reader.onload of handleExcelUpload, for a file whose first sheet is
\* jsonData
excelReaderOnload(jsonData) ==
  /\ excelLoads > 0
  /\ excelLoads' = excelLoads - 1
  /\ LET parsed == ParseSheet(jsonData)
     IN  /\ maxSales' = parsed.maxSalesValue
         /\ salesData' = Some(parsed.deptSales)
         /\ availableDepts' = Sort(parsed.deptList)
         /\ departments' = SyncSales(departments, parsed.deptSales)
  /\ lastEvent' = Event("excelReaderOnload", "ok")
  /\ UNCHANGED <<floorPlanImage, selectedDepartment, mode, selectorVars,
                 viewVars, dragVars, envVars, imageLoads, wheelCount,
                 heatmapVisible, fileInput, jsxVars>>

\* reader.onload of handleExcelUpload when XLSX.read throws: the catch
\* block alerts and sets no state
excelReaderOnloadError ==
  /\ excelLoads > 0
  /\ excelLoads' = excelLoads - 1
  /\ lastEvent' = Event("excelReaderOnload", "alert")
  /\ UNCHANGED <<floorPlanImage, salesVars, deptVars, selectorVars, viewVars,
                 dragVars, envVars, imageLoads, wheelCount, heatmapVisible,
                 fileInput, jsxVars>>

\* ------------------------------------------------------------------------
\* Department management
\* ------------------------------------------------------------------------
Names(depts) == {depts[i].name : i \in 1..Len(depts)}

\* showDepartmentSelector, the Add/Select Department button (disabled
\* without a floor plan and in draw mode)
showDepartmentSelector ==
  /\ floorPlanImage # Null
  /\ mode # "draw"
  /\ LET drawnDeptNames == Names(departments)
         notDrawn(name) == name \notin drawnDeptNames
     IN  availableDepts' =
           IF salesData # Null
           THEN Sort(SelectSeq(Keys(salesData[1]), notDrawn))
           ELSE <<>>
  /\ showDeptSelector' = TRUE
  /\ newDeptName' = <<>>
  /\ lastEvent' = Event("showDepartmentSelector", "ok")
  /\ UNCHANGED <<floorPlanImage, salesData, maxSales, deptVars, viewVars,
                 dragVars, envVars, fileVars, wheelCount, heatmapVisible,
                 fileInput, jsxVars>>

\* onChange of the manual name entry
setNewDeptName(text) ==
  /\ showDeptSelector
  /\ newDeptName' = text
  /\ lastEvent' = Event("setNewDeptName", "ok")
  /\ UNCHANGED <<floorPlanImage, salesVars, deptVars, showDeptSelector,
                 viewVars, dragVars, envVars, fileVars, wheelCount,
                 heatmapVisible, fileInput, jsxVars>>

\* the Cancel button of the selector
cancelSelector ==
  /\ showDeptSelector
  /\ showDeptSelector' = FALSE
  /\ lastEvent' = Event("cancelSelector", "ok")
  /\ UNCHANGED <<floorPlanImage, salesVars, deptVars, newDeptName, viewVars,
                 dragVars, envVars, fileVars, wheelCount, heatmapVisible,
                 fileInput, jsxVars>>

\* the guard of createDepartment without the test for an existing name
NameRejectedEmptyOnly(name, depts) == name = <<>>

\* the guard of createDepartment, line 1159
NameRejected(name, depts) ==
  name = <<>> \/ \E i \in 1..Len(depts) : depts[i].name = name

\* the object newDept of createDepartment, lines 1164-1169
NewDept(name) ==
  [id |-> ToString(now),
   name |-> name,
   coords |-> <<>>,
   sales |-> IF salesData # Null /\ LookupOrZero(salesData[1], name) # 0
             THEN Lookup(salesData[1], name) ELSE 0]

\* the state createDepartment(name) sets, and whether it alerts
createDepartmentResult(name) ==
  IF NameRejected(name, departments)
  THEN [alert |-> TRUE,
        departments |-> departments,
        selectedDepartment |-> selectedDepartment,
        mode |-> mode,
        showDeptSelector |-> showDeptSelector,
        newDeptName |-> newDeptName]
  ELSE [alert |-> FALSE,
        departments |-> Append(departments, NewDept(name)),
        selectedDepartment |-> Some(Len(departments)),
        mode |-> "draw",
        showDeptSelector |-> FALSE,
        newDeptName |-> <<>>]

\* createDepartment(name)
createDepartment(name) ==
  LET result == createDepartmentResult(name)
  IN  /\ Len(result.departments) <= MaxDepts
      /\ departments' = result.departments
      /\ selectedDepartment' = result.selectedDepartment
      /\ mode' = result.mode
      /\ showDeptSelector' = result.showDeptSelector
      /\ newDeptName' = result.newDeptName
      /\ lastEvent' = Event("createDepartment",
                            IF result.alert THEN "alert" ELSE "ok")
      /\ UNCHANGED <<floorPlanImage, salesVars, viewVars, dragVars, envVars,
                     fileVars, wheelCount, heatmapVisible, fileInput,
                     jsxVars>>

\* a button of the "From Excel" list of the selector, lines 1853-1870
availableDeptButton(idx) ==
  /\ showDeptSelector
  /\ HasIndex(availableDepts, idx)
  /\ createDepartment(At(availableDepts, idx))

\* the Create button of the manual entry, lines 1888-1902 (disabled when
\* the trimmed text is empty or the name of a department)
createButton ==
  /\ showDeptSelector
  /\ Trim(newDeptName) # <<>>
  /\ Trim(newDeptName) \notin Names(departments)
  /\ createDepartment(Trim(newDeptName))

\* the drawing controls are rendered, lines 1914-1916
DrawingControlsShown ==
  /\ mode = "draw"
  /\ selectedDepartment # Null
  /\ HasIndex(departments, selectedDepartment[1])

\* finishDrawing leaving the selection in place
finishDrawingKeepsSelection ==
  /\ DrawingControlsShown
  /\ IF Len(At(departments, selectedDepartment[1]).coords) >= 3
     THEN /\ mode' = "view"
          /\ lastEvent' = Event("finishDrawing", "ok")
     ELSE /\ lastEvent' = Event("finishDrawing", "alert")
          /\ UNCHANGED mode
  /\ UNCHANGED <<floorPlanImage, salesVars, departments, selectedDepartment,
                 selectorVars, viewVars, dragVars, envVars, fileVars,
                 wheelCount, heatmapVisible, fileInput, jsxVars>>

\* finishDrawing accepting an area of two points
finishDrawingTwoPoints ==
  /\ DrawingControlsShown
  /\ IF Len(At(departments, selectedDepartment[1]).coords) >= 2
     THEN /\ mode' = "view"
          /\ selectedDepartment' = Null
          /\ lastEvent' = Event("finishDrawing", "ok")
     ELSE /\ lastEvent' = Event("finishDrawing", "alert")
          /\ UNCHANGED <<mode, selectedDepartment>>
  /\ UNCHANGED <<floorPlanImage, salesVars, departments, selectorVars,
                 viewVars, dragVars, envVars, fileVars, wheelCount,
                 heatmapVisible, fileInput, jsxVars>>

\* finishDrawing, the Finish Area button
finishDrawing ==
  /\ DrawingControlsShown
  /\ IF /\ selectedDepartment # Null
        /\ HasIndex(departments, selectedDepartment[1])
        /\ Len(At(departments, selectedDepartment[1]).coords) >= 3
     THEN /\ mode' = "view"
          /\ selectedDepartment' = Null
          /\ lastEvent' = Event("finishDrawing", "ok")
     ELSE /\ lastEvent' = Event("finishDrawing",
                                IF selectedDepartment # Null
                                THEN "alert" ELSE "ignored")
          /\ UNCHANGED <<mode, selectedDepartment>>
  /\ UNCHANGED <<floorPlanImage, salesVars, departments, selectorVars,
                 viewVars, dragVars, envVars, fileVars, wheelCount,
                 heatmapVisible, fileInput, jsxVars>>

\* clearCurrentDepartmentPoints dropping the last point only
clearCurrentDepartmentPointsLastOnly ==
  /\ DrawingControlsShown
  /\ departments' =
       [departments EXCEPT ![selectedDepartment[1] + 1].coords =
          IF @ = <<>> THEN <<>> ELSE SubSeq(@, 1, Len(@) - 1)]
  /\ lastEvent' = Event("clearCurrentDepartmentPoints", "ok")
  /\ UNCHANGED <<floorPlanImage, salesVars, selectedDepartment, mode,
                 selectorVars, viewVars, dragVars, envVars, fileVars,
                 wheelCount, heatmapVisible, fileInput, jsxVars>>

\* clearCurrentDepartmentPoints, the Clear Points button
clearCurrentDepartmentPoints ==
  /\ DrawingControlsShown
  /\ IF mode = "draw" /\ selectedDepartment # Null
     THEN departments' =
            IF HasIndex(departments, selectedDepartment[1])
            THEN [departments EXCEPT ![selectedDepartment[1] + 1].coords = <<>>]
            ELSE departments
     ELSE UNCHANGED departments
  /\ lastEvent' = Event("clearCurrentDepartmentPoints", "ok")
  /\ UNCHANGED <<floorPlanImage, salesVars, selectedDepartment, mode,
                 selectorVars, viewVars, dragVars, envVars, fileVars,
                 wheelCount, heatmapVisible, fileInput, jsxVars>>

\* Cancel Draw discarding an active department of fewer than 3 points
cancelDrawDiscards ==
  /\ DrawingControlsShown
  /\ mode' = "view"
  /\ selectedDepartment' = Null
  /\ departments' =
       IF Len(At(departments, selectedDepartment[1]).coords) < 3
       THEN [k \in 1..(Len(departments) - 1) |->
               IF k < selectedDepartment[1] + 1
               THEN departments[k] ELSE departments[k + 1]]
       ELSE departments
  /\ lastEvent' = Event("cancelDraw", "ok")
  /\ UNCHANGED <<floorPlanImage, salesVars, selectorVars, viewVars, dragVars,
                 envVars, fileVars, wheelCount, heatmapVisible, fileInput,
                 jsxVars>>

\* the Cancel Draw button, lines 1939-1947
cancelDraw ==
  /\ DrawingControlsShown
  /\ mode' = "view"
  /\ selectedDepartment' = Null
  /\ lastEvent' = Event("cancelDraw", "ok")
  /\ UNCHANGED <<floorPlanImage, salesVars, departments, selectorVars,
                 viewVars, dragVars, envVars, fileVars, wheelCount,
                 heatmapVisible, fileInput, jsxVars>>

\* the Edit Area button left enabled in draw mode
editAreaAnyMode(index) ==
  /\ HasIndex(departments, index)
  /\ selectedDepartment' = Some(index)
  /\ mode' = "draw"
  /\ showDeptSelector' = FALSE
  /\ lastEvent' = Event("editArea", "ok")
  /\ UNCHANGED <<floorPlanImage, salesVars, departments, newDeptName,
                 viewVars, dragVars, envVars, fileVars, wheelCount,
                 heatmapVisible, fileInput, jsxVars>>

\* the Edit Area button of department index (disabled in draw mode)
editArea(index) ==
  /\ HasIndex(departments, index)
  /\ mode # "draw"
  /\ selectedDepartment' = Some(index)
  /\ mode' = "draw"
  /\ showDeptSelector' = FALSE
  /\ lastEvent' = Event("editArea", "ok")
  /\ UNCHANGED <<floorPlanImage, salesVars, departments, newDeptName,
                 viewVars, dragVars, envVars, fileVars, wheelCount,
                 heatmapVisible, fileInput, jsxVars>>

\* prevDepts.filter((_, index) => index !== indexToDelete)
RemoveAt(s, i) ==
  [k \in 1..(Len(s) - 1) |-> IF k < i + 1 THEN s[k] ELSE s[k + 1]]

\* deleteDepartment keeping the selected index as it is when a department
\* before the selected one is deleted
deleteDepartmentResultNoShift(indexToDelete) ==
  [departments |-> IF HasIndex(departments, indexToDelete)
                   THEN RemoveAt(departments, indexToDelete)
                   ELSE departments,
   selectedDepartment |-> IF selectedDepartment = Some(indexToDelete)
                          THEN Null ELSE selectedDepartment,
   mode |-> IF selectedDepartment = Some(indexToDelete)
            THEN "view" ELSE mode]

\* the state deleteDepartment(indexToDelete) sets, lines 1209-1225
deleteDepartmentResult(indexToDelete) ==
  [departments |-> IF HasIndex(departments, indexToDelete)
                   THEN RemoveAt(departments, indexToDelete)
                   ELSE departments,
   selectedDepartment |->
     IF selectedDepartment = Some(indexToDelete)
     THEN Null
     ELSE IF selectedDepartment # Null
             /\ selectedDepartment[1] > indexToDelete
          THEN Some(selectedDepartment[1] - 1)
          ELSE selectedDepartment,
   mode |-> IF selectedDepartment = Some(indexToDelete)
            THEN "view" ELSE mode]

\* deleteDepartment(indexToDelete)
deleteDepartment(indexToDelete) ==
  LET result == deleteDepartmentResult(indexToDelete)
  IN  /\ departments' = result.departments
      /\ selectedDepartment' = result.selectedDepartment
      /\ mode' = result.mode
      /\ lastEvent' = Event("deleteDepartment", "ok")
      /\ UNCHANGED <<floorPlanImage, salesVars, selectorVars, viewVars,
                     dragVars, envVars, fileVars, wheelCount, heatmapVisible,
                     fileInput, jsxVars>>

\* the Del button of department index (disabled in draw mode), confirmed
delButton(index) ==
  /\ HasIndex(departments, index)
  /\ mode # "draw"
  /\ deleteDepartment(index)

\* ------------------------------------------------------------------------
\* Canvas interaction (the canvas exists once a floor plan is loaded)
\* ------------------------------------------------------------------------
\* getCanvasCoordinates taking the offset in the displayed canvas for the
\* position in the buffer
getCanvasCoordinatesUnscaled(p, z, q) ==
  Pt(RDiv(RSub(p.x, q.x), z), RDiv(RSub(p.y, q.y), z))

\* getCanvasCoordinates for a pointer at offset p, under zoom z and pan q
getCanvasCoordinates(p, z, q) ==
  LET scaleX == R(canvasScale)
      scaleY == R(canvasScale)
      mouseX == RMul(p.x, scaleX)
      mouseY == RMul(p.y, scaleY)
  IN  Pt(RDiv(RSub(mouseX, q.x), z), RDiv(RSub(mouseY, q.y), z))

\* the updater of handleCanvasClick adding the point to every department
AppendPointToAll(prevDepts, sel, coords) ==
  [i \in 1..Len(prevDepts) |->
     [prevDepts[i] EXCEPT !.coords = Append(@, Pt(coords.x, coords.y))]]

\* the updater of setDepartments in handleCanvasClick, lines 1263-1280
AppendPoint(prevDepts, sel, coords) ==
  IF ~HasIndex(prevDepts, sel) THEN prevDepts
  ELSE [prevDepts EXCEPT ![sel + 1].coords = Append(@, Pt(coords.x, coords.y))]

\* handleCanvasClick without the check of the mode: a click outside draw
\* mode adds its point to the first department
handleCanvasClickAnyMode(p) ==
  /\ floorPlanImage # Null
  /\ departments' =
       AppendPoint(departments,
                   IF selectedDepartment = Null THEN 0 ELSE selectedDepartment[1],
                   getCanvasCoordinates(p, zoom, pan))
  /\ lastEvent' = Event("handleCanvasClick", "ok")
  /\ UNCHANGED <<floorPlanImage, salesVars, selectedDepartment, mode,
                 selectorVars, viewVars, dragVars, envVars, fileVars,
                 wheelCount, heatmapVisible, fileInput, jsxVars>>

\* handleCanvasClick for a click at offset p
handleCanvasClick(p) ==
  /\ floorPlanImage # Null
  /\ IF mode # "draw" \/ selectedDepartment = Null
     THEN /\ lastEvent' = Event("handleCanvasClick", "ignored")
          /\ UNCHANGED departments
     ELSE /\ HasIndex(departments, selectedDepartment[1]) =>
               Len(At(departments, selectedDepartment[1]).coords) < MaxPoints
          /\ departments' =
               AppendPoint(departments, selectedDepartment[1],
                           getCanvasCoordinates(p, zoom, pan))
          /\ lastEvent' = Event("handleCanvasClick", "ok")
  /\ UNCHANGED <<floorPlanImage, salesVars, selectedDepartment, mode,
                 selectorVars, viewVars, dragVars, envVars, fileVars,
                 wheelCount, heatmapVisible, fileInput, jsxVars>>

\* handleMouseDown at offset p
handleMouseDown(p) ==
  /\ floorPlanImage # Null
  /\ IF mode = "view"
     THEN /\ isDragging' = TRUE
          /\ dragStart' = p
     ELSE UNCHANGED dragVars
  /\ lastEvent' = Event("handleMouseDown", "ok")
  /\ UNCHANGED <<floorPlanImage, salesVars, deptVars, selectorVars, viewVars,
                 envVars, fileVars, wheelCount, heatmapVisible, fileInput,
                 jsxVars>>

RAbs(q) == <<Abs(q[1]), q[2]>>
PanInRange(q) ==
  /\ RLe(RAbs(q.x), R(MaxPan * DisplayWidth))
  /\ RLe(RAbs(q.y), R(MaxPan * DisplayHeight))

\* handleMouseMove at offset p
handleMouseMove(p) ==
  /\ floorPlanImage # Null
  /\ IF ~isDragging \/ mode # "view"
     THEN /\ lastEvent' = Event("handleMouseMove", "ignored")
          /\ UNCHANGED <<pan, dragStart>>
     ELSE LET dx == RSub(p.x, dragStart.x)
              dy == RSub(p.y, dragStart.y)
          IN  /\ pan' = Pt(RAdd(pan.x, dx), RAdd(pan.y, dy))
              /\ PanInRange(pan')
              /\ dragStart' = p
              /\ lastEvent' = Event("handleMouseMove", "ok")
  /\ UNCHANGED <<floorPlanImage, salesVars, deptVars, selectorVars, zoom,
                 isDragging, envVars, fileVars, wheelCount, heatmapVisible,
                 fileInput, jsxVars>>

\* handleMouseUpOrLeave
handleMouseUpOrLeave ==
  /\ floorPlanImage # Null
  /\ isDragging' = FALSE
  /\ lastEvent' = Event("handleMouseUpOrLeave", "ok")
  /\ UNCHANGED <<floorPlanImage, salesVars, deptVars, selectorVars, viewVars,
                 dragStart, envVars, fileVars, wheelCount, heatmapVisible,
                 fileInput, jsxVars>>

\* zoomFactor and 1 / zoomFactor, line 1334
ZoomFactor == Norm(11, 10)
MinZoom == Norm(1, 10)
MaxZoom == R(5)

\* newZoom without the clamp
NewZoomUnclamped(z, up) ==
  RMul(z, IF up THEN ZoomFactor ELSE RDiv(R(1), ZoomFactor))

\* newZoom of handleWheel; up is e.deltaY < 0
NewZoom(z, up) ==
  LET delta == IF up THEN ZoomFactor ELSE RDiv(R(1), ZoomFactor)
  IN  RMax(MinZoom, RMin(MaxZoom, RMul(z, delta)))

\* newPanX, newPanY of handleWheel
NewPan(p, z, q, newZoom) ==
  LET mouseX == p.x
      mouseY == p.y
  IN  Pt(RSub(mouseX, RMul(RSub(mouseX, q.x), RDiv(newZoom, z))),
         RSub(mouseY, RMul(RSub(mouseY, q.y), RDiv(newZoom, z))))

\* handleWheel for a wheel event at offset p
handleWheel(p, up) ==
  /\ floorPlanImage # Null
  /\ wheelCount < MaxWheel
  /\ wheelCount' = wheelCount + 1
  /\ LET newZoom == NewZoom(zoom, up)
     IN  /\ zoom' = newZoom
         /\ pan' = NewPan(p, zoom, pan, newZoom)
  /\ lastEvent' = Event("handleWheel", "ok")
  /\ UNCHANGED <<floorPlanImage, salesVars, deptVars, selectorVars, dragVars,
                 envVars, fileVars, heatmapVisible, fileInput, jsxVars>>

\* the + and - buttons: a wheel event at the centre of the displayed canvas
zoomButton(up) == handleWheel(Centre, up)

\* the Reset button, lines 2204-2213
resetView ==
  /\ floorPlanImage # Null
  /\ zoom' = R(1)
  /\ pan' = Pt(R(0), R(0))
  /\ lastEvent' = Event("resetView", "ok")
  /\ UNCHANGED <<floorPlanImage, salesVars, deptVars, selectorVars, dragVars,
                 envVars, fileVars, wheelCount, heatmapVisible, fileInput,
                 jsxVars>>

\* onChange of the Show Sales Heatmap checkbox, lines 1957-1963 (disabled
\* without a value map or with maxSales <= 0)
toggleHeatmapVisible ==
  /\ salesData # Null
  /\ maxSales > 0
  /\ heatmapVisible' = ~heatmapVisible
  /\ lastEvent' = Event("toggleHeatmapVisible", "ok")
  /\ UNCHANGED <<floorPlanImage, salesVars, deptVars, selectorVars, viewVars,
                 dragVars, envVars, fileVars, wheelCount, fileInput, jsxVars>>

\* the clock advances
tick ==
  /\ now < MaxClock
  /\ now' = now + 1
  /\ UNCHANGED <<floorPlanImage, salesVars, deptVars, selectorVars, viewVars,
                 dragVars, canvasScale, fileVars, wheelCount, lastEvent,
                 heatmapVisible, fileInput, jsxVars>>

\* ------------------------------------------------------------------------
\* Rendering
\* ------------------------------------------------------------------------
\* the indices of a list, in order
Indices(s) == [k \in 1..Len(s) |-> k - 1]

\* the test of generateHeatmap's loop accepting every department with a
\* point
HeatSkipsEmptyOnly(dept) == Len(dept.coords) < 1

\* the test of generateHeatmap's loop, line 1365
HeatSkips(dept) == Len(dept.coords) < 3

\* dept.sales / maxSales, replaced by 0.5 when it is NaN or infinite,
\* lines 1393-1397
SalesRatio(dept) ==
  IF maxSales = 0 THEN Norm(1, 2) ELSE Norm(dept.sales, maxSales)

\* Math.pow(x, 0.3) >= 0.3 for a rational x >= 0, that is
\* x^3 >= 0.3^10 = 59049 / 10^10, with every product below 2^31
PowAtLeastMinimum(x) ==
  (x[1] * x[1] * x[1]) * 100000
    >= ((59049 * (x[2] * x[2] * x[2])) + 99999) \div 100000

\* An intensity: NaN, the minimum 0.3, or Math.pow(base, 0.3) for a
\* rational base, which is kept as it is since the power is irrational.
NaN == [kind |-> "NaN", base |-> R(0)]
Minimum == [kind |-> "min", base |-> Norm(3, 10)]
Pow(base) == [kind |-> "pow", base |-> base]

\* intensity of generateHeatmap, lines 1393-1400: Math.pow of a negative
\* number is NaN, and so is Math.max(NaN, 0.3)
Intensity(dept) ==
  LET intensity == SalesRatio(dept)
  IN  IF RLt(intensity, R(0)) THEN NaN
      ELSE IF PowAtLeastMinimum(intensity) THEN Pow(intensity)
      ELSE Minimum

\* the polygons the loop of generateHeatmap fills, lines 1364-1429
HeatFills ==
  LET filled(i) == ~HeatSkips(At(departments, i))
      indices == SelectSeq(Indices(departments), filled)
  IN  [k \in 1..Len(indices) |->
         [dept |-> indices[k],
          ratio |-> SalesRatio(At(departments, indices[k])),
          intensity |-> Intensity(At(departments, indices[k]))]]

\* generateHeatmap: null, or the offscreen canvas, whose pixels are
\* transparent outside the blurred fills
generateHeatmap ==
  IF Len(departments) = 0 \/ maxSales = 0 \/ ~heatmapVisible
  THEN Null
  ELSE Some([fills |-> HeatFills])

\* a call on the 2d context of the canvas
Step(op, dept, arg) == [op |-> op, dept |-> dept, arg |-> arg]
NoDept == 0 - 1

\* clearRect, save, translate, scale and the floor plan, lines 1531-1551
BaseSteps ==
  <<Step("clearRect", NoDept, Null),
    Step("save", NoDept, Null),
    Step("translate", NoDept, pan),
    Step("scale", NoDept, zoom),
    Step("drawImage", NoDept, floorPlanImage)>>

\* the heatmap step drawing the fills whatever the checkbox and maxSales
HeatmapStepUnguarded ==
  <<Step("drawHeatmap", NoDept, [fills |-> HeatFills])>>

\* the heatmap step, lines 1561-1579
HeatmapStep ==
  IF heatmapVisible /\ Len(departments) > 0 /\ maxSales > 0
  THEN LET heatmapCanvas == generateHeatmap
       IN  IF heatmapCanvas # Null
           THEN <<Step("drawHeatmap", NoDept, heatmapCanvas[1])>>
           ELSE <<>>
  ELSE <<>>

\* the test of the boundary loop, line 1583
BoundarySkips(dept) == Len(dept.coords) < 3

\* outline, name and sales text of the departments from deptIndex on,
\* lines 1582-1630
RECURSIVE BoundarySteps(_)
BoundarySteps(deptIndex) ==
  IF ~HasIndex(departments, deptIndex) THEN <<>>
  ELSE LET dept == At(departments, deptIndex)
       IN  (IF BoundarySkips(dept) THEN <<>>
            ELSE <<Step("outline", deptIndex, Null),
                   Step("label", deptIndex, Null)>>
                 \o (IF salesData # Null
                     THEN <<Step("salesLabel", deptIndex, Null)>>
                     ELSE <<>>))
           \o BoundarySteps(deptIndex + 1)

\* the condition of the overlay and of the drawing text, lines 1633-1637
\* and 1671-1675
DrawingDept ==
  /\ mode = "draw"
  /\ selectedDepartment # Null
  /\ HasIndex(departments, selectedDepartment[1])

\* dashed line and points of the department being drawn, lines 1633-1665
DrawingSteps ==
  IF DrawingDept
  THEN LET dept == At(departments, selectedDepartment[1])
       IN  (IF Len(dept.coords) > 1
            THEN <<Step("dashedLine", selectedDepartment[1], Null)>>
            ELSE <<>>)
           \o [k \in 1..Len(dept.coords) |->
                 Step("point", selectedDepartment[1], dept.coords[k])]
  ELSE <<>>

\* restore and the texts drawn after it, lines 1668-1693
HintSteps ==
  <<Step("restore", NoDept, Null)>>
  \o (IF DrawingDept
      THEN <<Step("drawingText", selectedDepartment[1], Null)>>
      ELSE <<>>)
  \o (IF mode = "view" /\ ~isDragging
      THEN <<Step("viewText", NoDept, Null)>>
      ELSE <<>>)

\* the effect drawing the heatmap after the boundaries
drawEffectHeatmapLast ==
  IF floorPlanImage = Null THEN <<>>
  ELSE BaseSteps \o BoundarySteps(0) \o HeatmapStep \o DrawingSteps
       \o HintSteps

\* The drawing effect: the calls it makes on the canvas for the current
\* state. Without a floor plan the canvas is not rendered and the effect
\* returns at line 1493.
drawEffect ==
  IF floorPlanImage = Null THEN <<>>
  ELSE BaseSteps \o HeatmapStep \o BoundarySteps(0) \o DrawingSteps
       \o HintSteps

\* ------------------------------------------------------------------------
\* The component of heatmap.jsx
\* ------------------------------------------------------------------------
\* handleImageUpload of heatmap.jsx: the user selects the floor plan; the
\* file read starts (one load in flight at a time)
jsxHandleImageUpload ==
  /\ jsxImageLoad = "idle"
  /\ jsxImageLoad' = "reading"
  /\ lastEvent' = Event("jsxHandleImageUpload", "ok")
  /\ UNCHANGED <<jsxFloorPlanImage, jsxSalesData, jsxDepartments,
                 jsxSelectedDepartment, jsxMode, jsxMaxSales,
                 jsxShowDeptSelector, jsxNewDeptName, jsxAvailableDepts,
                 jsxCanvasScale, jsxExcelLoads, jsVars, now>>

\* reader.onload of handleImageUpload: the decode of the image starts
jsxImageReaderOnload ==
  /\ jsxImageLoad = "reading"
  /\ jsxImageLoad' = "decoding"
  /\ lastEvent' = Event("jsxImageReaderOnload", "ok")
  /\ UNCHANGED <<jsxFloorPlanImage, jsxSalesData, jsxDepartments,
                 jsxSelectedDepartment, jsxMode, jsxMaxSales,
                 jsxShowDeptSelector, jsxNewDeptName, jsxAvailableDepts,
                 jsxCanvasScale, jsxExcelLoads, jsVars, now>>

\* img.onload of handleImageUpload: only the floor plan is set; the draw
\* effect gives the canvas the image's size, displayed at ratio s
jsxImgOnload(s) ==
  /\ jsxImageLoad = "decoding"
  /\ jsxImageLoad' = "idle"
  /\ jsxFloorPlanImage' = Some(1)
  /\ jsxCanvasScale' = s
  /\ lastEvent' = Event("jsxImgOnload", "ok")
  /\ UNCHANGED <<jsxSalesData, jsxDepartments, jsxSelectedDepartment,
                 jsxMode, jsxMaxSales, jsxShowDeptSelector, jsxNewDeptName,
                 jsxAvailableDepts, jsxExcelLoads, jsVars, now>>

\* typeof row.C === "number" ? row.C : 0
jsxSalesValue(row) == IF row.C # Null THEN row.C[1] ELSE 0

\* the forEach over jsonData.slice(1) of heatmap.jsx; a numeric cell is
\* never NaN, so the test !isNaN(salesValue) holds
RECURSIVE jsxProcessRows(_, _)
jsxProcessRows(rows, acc) ==
  IF rows = <<>> THEN acc
  ELSE LET row == Head(rows)
           deptName == row.A
           salesValue == jsxSalesValue(row)
       IN  jsxProcessRows(Tail(rows),
             IF deptName # <<>>
             THEN [deptSales |-> Put(acc.deptSales, deptName, salesValue),
                   deptList |-> Append(acc.deptList, deptName),
                   maxSalesValue |-> IF salesValue > acc.maxSalesValue
                                     THEN salesValue ELSE acc.maxSalesValue]
             ELSE acc)

jsxParseSheet(jsonData) ==
  jsxProcessRows(Slice1(jsonData),
                 [deptSales |-> <<>>, deptList |-> <<>>, maxSalesValue |-> 0])

\* the updater of setDepartments of handleExcelUpload
jsxSyncSales(prevDepts, deptSales) ==
  [i \in 1..Len(prevDepts) |->
     [prevDepts[i] EXCEPT !.sales = LookupOrZero(deptSales, prevDepts[i].name)]]

\* handleExcelUpload of heatmap.jsx: the user selects a spreadsheet
jsxHandleExcelUpload ==
  /\ jsxExcelLoads < MaxExcelLoads
  /\ jsxExcelLoads' = jsxExcelLoads + 1
  /\ lastEvent' = Event("jsxHandleExcelUpload", "ok")
  /\ UNCHANGED <<jsxFloorPlanImage, jsxSalesData, jsxDepartments,
                 jsxSelectedDepartment, jsxMode, jsxMaxSales,
                 jsxShowDeptSelector, jsxNewDeptName, jsxAvailableDepts,
                 jsxCanvasScale, jsxImageLoad, jsVars, now>>

\* reader.onload of handleExcelUpload for a workbook whose first sheet is
\* jsonData
jsxExcelReaderOnload(jsonData) ==
  /\ jsxExcelLoads > 0
  /\ jsxExcelLoads' = jsxExcelLoads - 1
  /\ LET parsed == jsxParseSheet(jsonData)
     IN  /\ jsxMaxSales' = parsed.maxSalesValue
         /\ jsxSalesData' = Some(parsed.deptSales)
         /\ jsxAvailableDepts' = parsed.deptList
         /\ jsxDepartments' = jsxSyncSales(jsxDepartments, parsed.deptSales)
  /\ lastEvent' = Event("jsxExcelReaderOnload", "ok")
  /\ UNCHANGED <<jsxFloorPlanImage, jsxSelectedDepartment, jsxMode,
                 jsxShowDeptSelector, jsxNewDeptName, jsxCanvasScale,
                 jsxImageLoad, jsVars, now>>

\* reader.onload of handleExcelUpload for a file XLSX.read rejects: the
\* catch block alerts
jsxExcelReaderOnloadError ==
  /\ jsxExcelLoads > 0
  /\ jsxExcelLoads' = jsxExcelLoads - 1
  /\ lastEvent' = Event("jsxExcelReaderOnload", "alert")
  /\ UNCHANGED <<jsxFloorPlanImage, jsxSalesData, jsxDepartments,
                 jsxSelectedDepartment, jsxMode, jsxMaxSales,
                 jsxShowDeptSelector, jsxNewDeptName, jsxAvailableDepts,
                 jsxCanvasScale, jsxImageLoad, jsVars, now>>

\* showDepartmentSelector of heatmap.jsx, the Add Department button
\* (disabled without a floor plan only)
jsxShowDepartmentSelector ==
  /\ jsxFloorPlanImage # Null
  /\ jsxShowDeptSelector' = TRUE
  /\ lastEvent' = Event("jsxShowDepartmentSelector", "ok")
  /\ UNCHANGED <<jsxFloorPlanImage, jsxSalesData, jsxDepartments,
                 jsxSelectedDepartment, jsxMode, jsxMaxSales, jsxNewDeptName,
                 jsxAvailableDepts, jsxCanvasScale, jsxImageLoad,
                 jsxExcelLoads, jsVars, now>>

\* onChange of the name entry of the selector
jsxSetNewDeptName(text) ==
  /\ jsxShowDeptSelector
  /\ jsxNewDeptName' = text
  /\ lastEvent' = Event("jsxSetNewDeptName", "ok")
  /\ UNCHANGED <<jsxFloorPlanImage, jsxSalesData, jsxDepartments,
                 jsxSelectedDepartment, jsxMode, jsxMaxSales,
                 jsxShowDeptSelector, jsxAvailableDepts, jsxCanvasScale,
                 jsxImageLoad, jsxExcelLoads, jsVars, now>>

\* the Cancel button of the selector
jsxCancelSelector ==
  /\ jsxShowDeptSelector
  /\ jsxShowDeptSelector' = FALSE
  /\ lastEvent' = Event("jsxCancelSelector", "ok")
  /\ UNCHANGED <<jsxFloorPlanImage, jsxSalesData, jsxDepartments,
                 jsxSelectedDepartment, jsxMode, jsxMaxSales, jsxNewDeptName,
                 jsxAvailableDepts, jsxCanvasScale, jsxImageLoad,
                 jsxExcelLoads, jsVars, now>>

\* the object newDept of createDepartment of heatmap.jsx
jsxNewDept(name) ==
  [id |-> ToString(now),
   name |-> name,
   coords |-> <<>>,
   sales |-> IF jsxSalesData # Null
             THEN LookupOrZero(jsxSalesData[1], name) ELSE 0]

\* createDepartment(name) of heatmap.jsx
jsxCreateDepartment(name) ==
  /\ IF name = <<>>
     THEN /\ lastEvent' = Event("jsxCreateDepartment", "ignored")
          /\ UNCHANGED <<jsxDepartments, jsxSelectedDepartment, jsxMode,
                         jsxShowDeptSelector, jsxNewDeptName>>
     ELSE /\ Len(jsxDepartments) < MaxDepts
          /\ jsxDepartments' = Append(jsxDepartments, jsxNewDept(name))
          /\ jsxSelectedDepartment' = Some(Len(jsxDepartments))
          /\ jsxMode' = "draw"
          /\ jsxShowDeptSelector' = FALSE
          /\ jsxNewDeptName' = <<>>
          /\ lastEvent' = Event("jsxCreateDepartment", "ok")
  /\ UNCHANGED <<jsxFloorPlanImage, jsxSalesData, jsxMaxSales,
                 jsxAvailableDepts, jsxCanvasScale, jsxImageLoad,
                 jsxExcelLoads, jsVars, now>>

\* a button of the list of available departments of the selector
jsxAvailableDeptButton(idx) ==
  /\ jsxShowDeptSelector
  /\ HasIndex(jsxAvailableDepts, idx)
  /\ jsxCreateDepartment(At(jsxAvailableDepts, idx))

\* the Create button of the selector (disabled while the entry trims to
\* the empty string)
jsxCreateButton ==
  /\ jsxShowDeptSelector
  /\ Trim(jsxNewDeptName) # <<>>
  /\ jsxCreateDepartment(jsxNewDeptName)

\* the updater of setDepartments of handleCanvasClick of heatmap.jsx
jsxAppendPoint(prevDepts, sel, point) ==
  IF ~HasIndex(prevDepts, sel) THEN prevDepts
  ELSE [prevDepts EXCEPT ![sel + 1].coords = Append(@, point)]

\* handleCanvasClick of heatmap.jsx for a click at offset p
jsxHandleCanvasClick(p) ==
  /\ jsxFloorPlanImage # Null
  /\ IF jsxMode # "draw" \/ jsxSelectedDepartment = Null
     THEN /\ lastEvent' = Event("jsxHandleCanvasClick", "ignored")
          /\ UNCHANGED jsxDepartments
     ELSE LET scaleX == R(jsxCanvasScale)
              scaleY == R(jsxCanvasScale)
              x == RMul(p.x, scaleX)
              y == RMul(p.y, scaleY)
          IN  /\ HasIndex(jsxDepartments, jsxSelectedDepartment[1]) =>
                   Len(At(jsxDepartments, jsxSelectedDepartment[1]).coords)
                     < MaxPoints
              /\ jsxDepartments' =
                   jsxAppendPoint(jsxDepartments, jsxSelectedDepartment[1],
                                  Pt(x, y))
              /\ lastEvent' = Event("jsxHandleCanvasClick", "ok")
  /\ UNCHANGED <<jsxFloorPlanImage, jsxSalesData, jsxSelectedDepartment,
                 jsxMode, jsxMaxSales, jsxShowDeptSelector, jsxNewDeptName,
                 jsxAvailableDepts, jsxCanvasScale, jsxImageLoad,
                 jsxExcelLoads, jsVars, now>>

\* the drawing panel of heatmap.jsx is shown
jsxDrawingPanelShown == jsxMode = "draw" /\ jsxSelectedDepartment # Null

\* finishDrawing of heatmap.jsx, the Finish Drawing button (disabled while
\* the selected department exists and has fewer than 3 points)
jsxFinishDrawing ==
  /\ jsxDrawingPanelShown
  /\ HasIndex(jsxDepartments, jsxSelectedDepartment[1]) =>
       Len(At(jsxDepartments, jsxSelectedDepartment[1]).coords) >= 3
  /\ jsxMode' = "view"
  /\ jsxSelectedDepartment' = Null
  /\ lastEvent' = Event("jsxFinishDrawing", "ok")
  /\ UNCHANGED <<jsxFloorPlanImage, jsxSalesData, jsxDepartments,
                 jsxMaxSales, jsxShowDeptSelector, jsxNewDeptName,
                 jsxAvailableDepts, jsxCanvasScale, jsxImageLoad,
                 jsxExcelLoads, jsVars, now>>

\* clearCurrentDepartment of heatmap.jsx, the Clear Points button
jsxClearCurrentDepartment ==
  /\ jsxDrawingPanelShown
  /\ jsxDepartments' =
       IF HasIndex(jsxDepartments, jsxSelectedDepartment[1])
       THEN [jsxDepartments EXCEPT
               ![jsxSelectedDepartment[1] + 1].coords = <<>>]
       ELSE jsxDepartments
  /\ lastEvent' = Event("jsxClearCurrentDepartment", "ok")
  /\ UNCHANGED <<jsxFloorPlanImage, jsxSalesData, jsxSelectedDepartment,
                 jsxMode, jsxMaxSales, jsxShowDeptSelector, jsxNewDeptName,
                 jsxAvailableDepts, jsxCanvasScale, jsxImageLoad,
                 jsxExcelLoads, jsVars, now>>

\* the Edit button of department index of heatmap.jsx
jsxEditButton(index) ==
  /\ HasIndex(jsxDepartments, index)
  /\ jsxSelectedDepartment' = Some(index)
  /\ jsxMode' = "draw"
  /\ lastEvent' = Event("jsxEditButton", "ok")
  /\ UNCHANGED <<jsxFloorPlanImage, jsxSalesData, jsxDepartments,
                 jsxMaxSales, jsxShowDeptSelector, jsxNewDeptName,
                 jsxAvailableDepts, jsxCanvasScale, jsxImageLoad,
                 jsxExcelLoads, jsVars, now>>

\* deleteDepartment(index) of heatmap.jsx
jsxDeleteDepartment(index) ==
  /\ jsxDepartments' =
       IF HasIndex(jsxDepartments, index)
       THEN RemoveAt(jsxDepartments, index) ELSE jsxDepartments
  /\ IF jsxSelectedDepartment = Some(index)
     THEN /\ jsxSelectedDepartment' = Null
          /\ jsxMode' = "view"
     ELSE UNCHANGED <<jsxSelectedDepartment, jsxMode>>
  /\ lastEvent' = Event("jsxDeleteDepartment", "ok")
  /\ UNCHANGED <<jsxFloorPlanImage, jsxSalesData, jsxMaxSales,
                 jsxShowDeptSelector, jsxNewDeptName, jsxAvailableDepts,
                 jsxCanvasScale, jsxImageLoad, jsxExcelLoads, jsVars, now>>

\* the Delete button of department index of heatmap.jsx
jsxDeleteButton(index) ==
  /\ HasIndex(jsxDepartments, index)
  /\ jsxDeleteDepartment(index)

\* ------------------------------------------------------------------------
\* Specifications
\* ------------------------------------------------------------------------
\* the asynchronous load of one of the given files, displayed at one of
\* the given buffer ratios
NextImage(files, scales) ==
  \/ \E i \in files : handleImageUpload(i)
  \/ \E i \in files : imageReaderOnload(i)
  \/ \E i \in files, s \in scales : imgOnload(i, s)
  \/ \E i \in files : imageLoadError(i)

\* the asynchronous load of a spreadsheet
NextExcel ==
  \/ handleExcelUpload
  \/ \E jsonData \in Sheets : excelReaderOnload(jsonData)
  \/ excelReaderOnloadError

\* the department selector: opening it, the manual entry, closing it
NextManualEntry ==
  \/ showDepartmentSelector
  \/ \E text \in TypedNames : setNewDeptName(text)
  \/ cancelSelector
  \/ createButton

\* the department selector: the buttons of the "From Excel" list
NextAvailable ==
  \E idx \in 0..(Len(availableDepts) - 1) : availableDeptButton(idx)

\* the drawing controls
NextDrawing ==
  \/ finishDrawing
  \/ clearCurrentDepartmentPoints
  \/ cancelDraw

\* the buttons of the department list
NextList ==
  \/ \E index \in 0..(MaxDepts - 1) : editArea(index)
  \/ \E index \in 0..(MaxDepts - 1) : delButton(index)

\* pointer and wheel events on the canvas, and the zoom controls
NextPointer ==
  \/ \E p \in Positions : handleMouseDown(p)
  \/ \E p \in Positions : handleMouseMove(p)
  \/ handleMouseUpOrLeave
  \/ \E p \in Positions, up \in BOOLEAN : handleWheel(p, up)
  \/ \E up \in BOOLEAN : zoomButton(up)
  \/ resetView

\* a click on the canvas at one of the given positions
NextClick(positions) == \E p \in positions : handleCanvasClick(p)

\* the whole component
Next ==
  \/ NextImage(Images, Scales)
  \/ NextExcel
  \/ NextManualEntry
  \/ NextAvailable
  \/ NextDrawing
  \/ NextList
  \/ NextPointer
  \/ NextClick(Positions)
  \/ toggleHeatmapVisible
  \/ tick

Spec == Init /\ [][Next]_vars

\* The state space of Spec is the product of the viewport, the point
\* lists, the spreadsheet, the selector and the loads in flight. The
\* specifications below each take the handlers that read or write the
\* part of the state they are about, and start from the mounted component
\* or from states Spec reaches.

\* a department created at time 0 whose three points were clicked at zoom
\* 1 and pan 0 on a canvas of buffer ratio s
DrawnDept(s) ==
  [id |-> ToString(0), name |-> <<"a">>, sales |-> 0,
   coords |-> <<Pt(R(0), R(0)),
                Pt(RMul(Centre.x, R(s)), RMul(Centre.y, R(s))),
                Pt(R(0), R(0))>>]

\* The mounted component, and the states with a floor plan loaded at a
\* buffer ratio of Scales, zoom at 1 or at a clamp value (17 wheel steps up
\* from 1 give 5, 25 steps down give 1/10; at the corner of the canvas
\* they leave pan at 0) and the list empty or holding one drawn department.
InitView ==
  \/ Init
  \/ /\ floorPlanImage = Some(1)
     /\ canvasScale \in Scales
     /\ zoom \in {R(1), MinZoom, MaxZoom}
     /\ departments \in {<<>>, <<DrawnDept(canvasScale)>>}
     /\ salesData = Null
     /\ availableDepts = <<>>
     /\ selectedDepartment = Null
     /\ mode = "view"
     /\ heatmapVisible = TRUE
     /\ showDeptSelector = FALSE
     /\ newDeptName = <<>>
     /\ maxSales = 0
     /\ pan = Pt(R(0), R(0))
     /\ isDragging = FALSE
     /\ dragStart = Pt(R(0), R(0))
     /\ now = 0
     /\ imageLoads = [i \in Images |-> "idle"]
     /\ excelLoads = 0
     /\ wheelCount = 0
     /\ fileInput = Some(1)
     /\ lastEvent = Event("mount", "ok")
     /\ JsxInit

\* The viewport: floor plan loads, pointer and wheel events, zoom controls
\* and canvas clicks.
NextView ==
  \/ NextImage({1}, Scales)
  \/ NextPointer
  \/ NextClick(Positions)

SpecView == InitView /\ [][NextView]_vars

\* Department names: floor plan and spreadsheet loads, the selector, the
\* list buttons, Cancel Draw and canvas clicks.
NextNames ==
  \/ NextImage({1}, {1})
  \/ NextExcel
  \/ NextManualEntry
  \/ NextAvailable
  \/ NextList
  \/ cancelDraw
  \/ NextClick({Centre})

SpecNames == Init /\ [][NextNames]_vars

\* Department ids: the manual entry, Cancel Draw, the list buttons and the
\* clock.
NextIds ==
  \/ NextImage({1}, {1})
  \/ NextManualEntry
  \/ NextList
  \/ cancelDraw
  \/ tick

SpecIds == Init /\ [][NextIds]_vars

\* a department created at time 1 with one point clicked at zoom 1 and
\* pan 0 on a canvas of buffer ratio s
StartedDept(s) ==
  [id |-> ToString(1), name |-> <<"b">>, sales |-> 0,
   coords |-> <<Pt(RMul(Centre.x, R(s)), RMul(Centre.y, R(s)))>>]

\* The mounted component, and the states at time 1 with a floor plan
\* loaded, zoom at 1 or at its upper clamp and the list empty, holding one
\* drawn department, or a drawn and a started one.
InitSales ==
  \/ Init
  \/ /\ floorPlanImage = Some(1)
     /\ canvasScale \in Scales
     /\ zoom \in {R(1), MaxZoom}
     /\ departments \in {<<>>, <<DrawnDept(canvasScale)>>,
                         <<DrawnDept(canvasScale), StartedDept(canvasScale)>>}
     /\ salesData = Null
     /\ availableDepts = <<>>
     /\ selectedDepartment = Null
     /\ mode = "view"
     /\ heatmapVisible = TRUE
     /\ showDeptSelector = FALSE
     /\ newDeptName = <<>>
     /\ maxSales = 0
     /\ pan = Pt(R(0), R(0))
     /\ isDragging = FALSE
     /\ dragStart = Pt(R(0), R(0))
     /\ now = 1
     /\ imageLoads = [i \in Images |-> "idle"]
     /\ excelLoads = 0
     /\ wheelCount = 0
     /\ fileInput = Some(1)
     /\ lastEvent = Event("mount", "ok")
     /\ JsxInit

\* Sales values: floor plan and spreadsheet loads, the drawing controls,
\* the list buttons and canvas clicks.
NextSales ==
  \/ NextImage({1}, Scales)
  \/ NextExcel
  \/ NextDrawing
  \/ NextList
  \/ NextClick({Centre})

SpecSales == InitSales /\ [][NextSales]_vars

\* Drawing: the manual entry, the drawing controls, the list buttons and
\* canvas clicks.
NextDraw ==
  \/ NextImage({1}, {1})
  \/ NextManualEntry
  \/ NextDrawing
  \/ NextList
  \/ NextClick(Positions)

SpecDraw == Init /\ [][NextDraw]_vars

\* Viewport and modes together: floor plan loads, pointer and wheel
\* events, zoom controls, the list buttons and Cancel Draw.
NextDrawView ==
  \/ NextImage({1}, Scales)
  \/ NextPointer
  \/ NextList
  \/ cancelDraw

SpecDrawView == InitView /\ [][NextDrawView]_vars

\* the + and - buttons and the Reset button
NextZoomControls ==
  \/ \E up \in BOOLEAN : zoomButton(up)
  \/ resetView

\* Loads: floor plan and spreadsheet loads, the zoom controls, the list
\* buttons and Cancel Draw.
NextLoad ==
  \/ NextImage({1}, Scales)
  \/ NextExcel
  \/ NextZoomControls
  \/ NextList
  \/ cancelDraw

SpecLoad == InitSales /\ [][NextLoad]_vars

\* Rendering: floor plan and spreadsheet loads, the drawing controls, the
\* list buttons, canvas clicks, the heatmap checkbox and the mouse button.
NextRender ==
  \/ NextImage({1}, {1})
  \/ NextExcel
  \/ NextDrawing
  \/ NextList
  \/ NextClick({Centre})
  \/ toggleHeatmapVisible
  \/ \E p \in {Centre} : handleMouseDown(p)
  \/ handleMouseUpOrLeave

\* the states of InitSales at zoom 1 and buffer ratio 1
InitRender == InitSales /\ canvasScale = 1 /\ zoom = R(1)

SpecRender == InitRender /\ [][NextRender]_vars

\* Clicks under a changed viewport: floor plan loads, the zoom controls,
\* the list buttons, Cancel Draw and canvas clicks.
NextClickView ==
  \/ NextImage({1}, Scales)
  \/ NextZoomControls
  \/ NextList
  \/ cancelDraw
  \/ NextClick(Positions)

SpecClickView == InitSales /\ [][NextClickView]_vars

\* a spreadsheet with a loss in column C
LossSheet ==
  <<HeaderRow, Row(<<"a">>, Null, Some(0 - 1)), Row(<<"b">>, Null, Some(2))>>

\* the asynchronous load of a spreadsheet that may hold a loss
NextExcelSigned ==
  \/ handleExcelUpload
  \/ \E jsonData \in Sheets \cup {LossSheet} : excelReaderOnload(jsonData)
  \/ excelReaderOnloadError

\* Heat synthesis: floor plan loads, loads of spreadsheets with and without
\* a loss, the drawing controls, the list buttons, canvas clicks and the
\* heatmap checkbox.
NextHeat ==
  \/ NextImage({1}, {1})
  \/ NextExcelSigned
  \/ NextDrawing
  \/ NextList
  \/ NextClick({Centre})
  \/ toggleHeatmapVisible

SpecHeat == InitRender /\ [][NextHeat]_vars

\* Two floor plans: the loads of both files without read or decode
\* errors, the manual entry, Cancel Draw and canvas clicks.
NextImageLoaded(files, scales) ==
  \/ \E i \in files : handleImageUpload(i)
  \/ \E i \in files : imageReaderOnload(i)
  \/ \E i \in files, s \in scales : imgOnload(i, s)

NextTwoImages ==
  \/ NextImageLoaded(Images, {1})
  \/ NextManualEntry
  \/ cancelDraw
  \/ NextClick({Centre})

SpecTwoImages == Init /\ [][NextTwoImages]_vars

\* The component of heatmap.jsx: the loads, the selector, the list buttons
\* and the drawing of areas, at one buffer ratio.
NextJsxImage ==
  \/ jsxHandleImageUpload
  \/ jsxImageReaderOnload
  \/ jsxImgOnload(1)

\* the spreadsheets naming a department a with a sales value of 2 in column C
JsxSheets == {jsonData \in Sheets : Len(jsonData) = 3 /\ jsonData[2].C = Some(2)}

NextJsxExcel ==
  \/ jsxHandleExcelUpload
  \/ \E jsonData \in JsxSheets : jsxExcelReaderOnload(jsonData)
  \/ jsxExcelReaderOnloadError

NextJsxSelector ==
  \/ jsxShowDepartmentSelector
  \/ \E text \in TypedNames : jsxSetNewDeptName(text)
  \/ jsxCancelSelector
  \/ \E idx \in 0..1 : jsxAvailableDeptButton(idx)
  \/ jsxCreateButton

NextJsxList ==
  \/ \E index \in 0..(MaxDepts - 1) : jsxEditButton(index)
  \/ \E index \in 0..(MaxDepts - 1) : jsxDeleteButton(index)

NextJsxDrawing ==
  \/ jsxHandleCanvasClick(Centre)
  \/ jsxFinishDrawing
  \/ jsxClearCurrentDepartment

NextJsx ==
  \/ NextJsxImage
  \/ NextJsxExcel
  \/ NextJsxSelector
  \/ NextJsxList
  \/ NextJsxDrawing

SpecJsx == Init /\ [][NextJsx]_vars

\* ------------------------------------------------------------------------
\* Claims about the viewport
\* ------------------------------------------------------------------------
\* C1: a wheel step at a pointer position leaves the image-space point that
\* getCanvasCoordinates returns for that position unchanged, for every
\* zoom, pan, buffer ratio and direction.
ZoomAnchoring ==
  [][\A p \in Positions, up \in BOOLEAN :
       handleWheel(p, up) =>
         getCanvasCoordinates(p, zoom', pan') = getCanvasCoordinates(p, zoom, pan)]_vars

\* C2: zoom lies in [0.1, 5.0] in every reachable state.
ZoomClamped == RLe(Norm(1, 10), zoom) /\ RLe(zoom, R(5))

\* a wheel step up at the upper clamp, or down at the lower clamp, has acted
ZoomClampedWitness ==
  /\ lastEvent = Event("handleWheel", "ok")
  /\ wheelCount = 1
  /\ zoom \in {R(5), Norm(1, 10)}

\* C10: in view mode a canvas click leaves the departments list unchanged,
\* also the click that follows the mouse-up ending a pan drag.
PanNeverAppends ==
  [][(mode = "view" /\ \E p \in Positions : handleCanvasClick(p))
       => departments' = departments]_vars

\* a click was ignored in view mode after a pan drag had moved the view
PanNeverAppendsWitness ==
  /\ lastEvent = Event("handleCanvasClick", "ignored")
  /\ mode = "view"
  /\ wheelCount = 0
  /\ pan # Pt(R(0), R(0))
  /\ ~isDragging
  /\ departments # <<>>

\* ------------------------------------------------------------------------
\* Claims about departments and sales values
\* ------------------------------------------------------------------------
\* C3: no two departments of the list have the same name.
NoDuplicateNames ==
  \A i, j \in 1..Len(departments) :
    i # j => departments[i].name # departments[j].name

\* two departments are listed, one has points, a spreadsheet is loaded and
\* createDepartment has just refused a name
NoDuplicateNamesWitness ==
  /\ Len(departments) = 2
  /\ \E i \in 1..Len(departments) : departments[i].coords # <<>>
  /\ salesData # Null
  /\ lastEvent = Event("createDepartment", "alert")

\* C4: createDepartment called with the name of an existing department or
\* with the empty name alerts and leaves the departments list,
\* selectedDepartment, mode and the selector's open/closed state unchanged.
CreateRejectedNoMutation ==
  \A name \in {<<>>} \cup {departments[i].name : i \in 1..Len(departments)} :
    LET result == createDepartmentResult(name)
    IN  /\ result.alert
        /\ result.departments = departments
        /\ result.selectedDepartment = selectedDepartment
        /\ result.mode = mode
        /\ result.showDeptSelector = showDeptSelector

\* a button of the selector has called createDepartment with the name of a
\* listed department
CreateRejectedNoMutationWitness ==
  /\ lastEvent = Event("createDepartment", "alert")
  /\ showDeptSelector
  /\ departments # <<>>
  /\ \E idx \in 0..(Len(availableDepts) - 1) :
       \E i \in 1..Len(departments) :
         departments[i].name = At(availableDepts, idx)

\* C5: no department is created under a name that is empty or consists
\* only of whitespace, whichever control invokes createDepartment.
NoBlankNames ==
  \A i \in 1..Len(departments) : Trim(departments[i].name) # <<>>

\* C6: no two departments of the list share an id.
UniqueIds ==
  \A i, j \in 1..Len(departments) :
    i # j => departments[i].id # departments[j].id

\* C7: the completion of a spreadsheet load sets every department's sales
\* to the entry of the new value map for its name, 0 when it has none, and
\* changes no coords, id or name, nor the length and order of the list,
\* mode, selectedDepartment, zoom or pan.
ExcelSyncFrame ==
  [][\A jsonData \in Sheets :
       excelReaderOnload(jsonData) =>
         /\ salesData' # Null
         /\ Len(departments') = Len(departments)
         /\ \A i \in 1..Len(departments) :
              /\ departments'[i].id = departments[i].id
              /\ departments'[i].name = departments[i].name
              /\ departments'[i].coords = departments[i].coords
              /\ departments'[i].sales =
                   IF HasKey(salesData'[1], departments[i].name)
                   THEN Lookup(salesData'[1], departments[i].name)
                   ELSE 0
         /\ UNCHANGED <<mode, selectedDepartment, zoom, pan>>]_vars

\* a load has completed while a department with points was being drawn at
\* a zoom other than 1, and has given it a value
ExcelSyncFrameWitness ==
  /\ lastEvent = Event("excelReaderOnload", "ok")
  /\ mode = "draw"
  /\ selectedDepartment # Null
  /\ zoom # R(1)
  /\ Len(departments) = 2
  /\ \E i \in 1..Len(departments) :
       departments[i].coords # <<>> /\ departments[i].sales # 0
  /\ \E i \in 1..Len(departments) :
       ~HasKey(salesData[1], departments[i].name)

\* C8: maxSales is the largest value of the value map, and 0 without a
\* value map or with one whose values are all zero.
MaxOf(values) == IF values = {} THEN 0
                 ELSE CHOOSE v \in values : \A w \in values : w <= v
MaxSalesIsLargest ==
  maxSales = IF salesData = Null THEN 0
             ELSE MaxOf({salesData[1][i].value : i \in 1..Len(salesData[1])})

\* C9: finishDrawing with fewer than 3 points of the active department
\* leaves mode, selectedDepartment and all coords unchanged; with 3 or more
\* it sets view mode and no selection and leaves all coords unchanged.
FinishNeedsThreePoints ==
  [][finishDrawing =>
       /\ departments' = departments
       /\ IF Len(At(departments, selectedDepartment[1]).coords) < 3
          THEN mode' = "draw" /\ selectedDepartment' = selectedDepartment
          ELSE mode' = "view" /\ selectedDepartment' = Null]_vars

\* Finish Area has been refused for a department of two points
FinishNeedsThreePointsWitness ==
  /\ lastEvent = Event("finishDrawing", "alert")
  /\ mode = "draw"
  /\ selectedDepartment # Null
  /\ Len(At(departments, selectedDepartment[1]).coords) = 2

\* ------------------------------------------------------------------------
\* Claims about the modes
\* ------------------------------------------------------------------------
\* C11: in draw mode a wheel event, a mouse down, a mouse move and a mouse
\* up or leave on the canvas each leave zoom and pan unchanged, also when
\* isDragging was still set when draw mode was entered.
DrawKeepsViewport ==
  [][(/\ mode = "draw"
      /\ \/ \E p \in Positions : handleMouseDown(p)
         \/ \E p \in Positions : handleMouseMove(p)
         \/ handleMouseUpOrLeave
         \/ \E p \in Positions, up \in BOOLEAN : handleWheel(p, up))
       => UNCHANGED <<zoom, pan>>]_vars

\* C12: in every step, a department listed before and after it (the same
\* name) keeps its coords, gets exactly one point appended at the end, or
\* gets the empty list.
PointsAppendOnly ==
  [][\A i \in 1..Len(departments), j \in 1..Len(departments') :
       departments[i].name = departments'[j].name =>
         LET old == departments[i].coords
             new == departments'[j].coords
         IN  \/ new = old
             \/ new = <<>>
             \/ Len(new) = Len(old) + 1 /\ SubSeq(new, 1, Len(old)) = old]_vars

\* Clear Points has emptied the list of the active department while
\* another department keeps the three points clicked for it
PointsAppendOnlyWitness ==
  /\ lastEvent = Event("clearCurrentDepartmentPoints", "ok")
  /\ mode = "draw"
  /\ selectedDepartment # Null
  /\ At(departments, selectedDepartment[1]).coords = <<>>
  /\ \E i \in 1..Len(departments) : Len(departments[i].coords) = 3

\* C17: Cancel Draw sets view mode and no selected department and leaves
\* the departments list as it is, whatever the number of points of the
\* active department.
CancelDrawKeepsDepartments ==
  [][cancelDraw =>
       /\ mode = "draw"
       /\ mode' = "view"
       /\ selectedDepartment' = Null
       /\ departments' = departments]_vars

\* Cancel Draw has been pressed while the only department had two points
CancelDrawKeepsDepartmentsWitness ==
  /\ lastEvent = Event("cancelDraw", "ok")
  /\ mode = "view"
  /\ selectedDepartment = Null
  /\ Len(departments) = 1
  /\ Len(departments[1].coords) = 2

ImageLoadResets ==
  [][\A i \in Images, s \in Scales :
       imgOnload(i, s) =>
         /\ zoom' = R(1)
         /\ pan' = Pt(R(0), R(0))
         /\ mode' = "view"
         /\ selectedDepartment' = Null
         /\ departments' = <<>>
         /\ salesData' = Null
         /\ maxSales' = 0]_vars

\* a second floor plan has finished loading after a zoom step, with a
\* spreadsheet read still in flight
ImageLoadResetsWitness ==
  /\ lastEvent = Event("imgOnload", "ok")
  /\ now = 1
  /\ wheelCount = 1
  /\ excelLoads = 1

\* ------------------------------------------------------------------------
\* Claims about rendering
\* ------------------------------------------------------------------------
\* the indices of the departments with at least 3 points
CompleteDepts ==
  {i \in 0..(Len(departments) - 1) : Len(At(departments, i).coords) >= 3}

\* the positions of the steps of a frame with one of the given ops
StepsOf(frame, ops) == {k \in 1..Len(frame) : frame[k].op \in ops}

\* the departments a frame draws with the given op
DeptsOf(frame, op) == {frame[k].dept : k \in StepsOf(frame, {op})}

\* the departments a heat layer fills
FilledDepts(layer) == {layer.fills[j].dept : j \in 1..Len(layer.fills)}

\* C14: in every frame the departments with an outline and those with a
\* label are exactly the departments of at least 3 points, and the
\* departments filled into a synthesized heat layer are exactly those too;
\* one of fewer than 3 points is in none of them.
CompletenessGatesRendering ==
  LET frame == drawEffect
  IN  /\ DeptsOf(frame, "outline") = CompleteDepts
      /\ DeptsOf(frame, "label") = CompleteDepts
      /\ \A k \in StepsOf(frame, {"drawHeatmap"}) :
           FilledDepts(frame[k].arg) = CompleteDepts
      /\ generateHeatmap # Null =>
           FilledDepts(generateHeatmap[1]) = CompleteDepts

\* a frame with a filled heat layer while a department with a sales value
\* has one or two points
CompletenessGatesRenderingWitness ==
  /\ \E k \in StepsOf(drawEffect, {"drawHeatmap"}) :
       drawEffect[k].arg.fills # <<>>
  /\ \E i \in 1..Len(departments) :
       /\ Len(departments[i].coords) \in {1, 2}
       /\ departments[i].sales # 0

\* C15: with no department of at least 3 points, or maxSales 0, or
\* heatmapVisible false, generateHeatmap returns null or a layer without
\* fills and the frame draws no filled layer, and the frame still has the
\* floor plan, the outlines and labels of the complete departments, the
\* dashed line and points of the department being drawn, restore and the
\* hint text of the mode.
HeatLayerAbsentOrEmpty ==
  LET frame == drawEffect
  IN  (CompleteDepts = {} \/ maxSales = 0 \/ ~heatmapVisible) =>
        /\ generateHeatmap = Null \/ generateHeatmap[1].fills = <<>>
        /\ \A k \in StepsOf(frame, {"drawHeatmap"}) :
             frame[k].arg.fills = <<>>
        /\ floorPlanImage # Null =>
             /\ StepsOf(frame, {"drawImage"}) # {}
             /\ DeptsOf(frame, "outline") = CompleteDepts
             /\ DeptsOf(frame, "label") = CompleteDepts
             /\ DrawingDept =>
                  LET coords == At(departments, selectedDepartment[1]).coords
                  IN  /\ Cardinality(StepsOf(frame, {"point"})) = Len(coords)
                      /\ Len(coords) > 1 =>
                           StepsOf(frame, {"dashedLine"}) # {}
                      /\ StepsOf(frame, {"drawingText"}) # {}
             /\ StepsOf(frame, {"restore"}) # {}
             /\ (mode = "view" /\ ~isDragging) =>
                  StepsOf(frame, {"viewText"}) # {}

\* the checkbox is off while a complete department has a sales value, and
\* another department is being drawn
HeatLayerAbsentOrEmptyWitness ==
  /\ ~heatmapVisible
  /\ maxSales > 0
  /\ \E i \in CompleteDepts : At(departments, i).sales > 0
  /\ DrawingDept
  /\ Len(At(departments, selectedDepartment[1]).coords) = 2

\* the place of a step in the order of a frame
Rank(op) ==
  CASE op = "clearRect" -> 1
    [] op = "save" -> 2
    [] op = "translate" -> 3
    [] op = "scale" -> 4
    [] op = "drawImage" -> 5
    [] op = "drawHeatmap" -> 6
    [] op \in {"outline", "label", "salesLabel"} -> 7
    [] op \in {"dashedLine", "point"} -> 8
    [] op = "restore" -> 9
    [] op \in {"drawingText", "viewText"} -> 10

\* C16: a frame drawn for a floor plan issues clear, translate(pan),
\* scale(zoom), the floor plan, the heat layer if any, the outlines and
\* labels, the dashed line and points of the department being drawn,
\* restore and the hint text in this order, each of clear, translate,
\* scale, floor plan and restore once.
FrameOrder ==
  LET frame == drawEffect
  IN  floorPlanImage # Null =>
        /\ \A k \in 1..(Len(frame) - 1) :
             Rank(frame[k].op) <= Rank(frame[k + 1].op)
        /\ \A op \in {"clearRect", "translate", "scale", "drawImage",
                      "restore"} :
             Cardinality(StepsOf(frame, {op})) = 1
        /\ \A k \in StepsOf(frame, {"translate"}) : frame[k].arg = pan
        /\ \A k \in StepsOf(frame, {"scale"}) : frame[k].arg = zoom

\* a frame with a filled heat layer, an outline, the dashed line and
\* points of the department being drawn and the drawing text
FrameOrderWitness ==
  LET frame == drawEffect
  IN  /\ \E k \in StepsOf(frame, {"drawHeatmap"}) : frame[k].arg.fills # <<>>
      /\ StepsOf(frame, {"outline"}) # {}
      /\ StepsOf(frame, {"dashedLine"}) # {}
      /\ StepsOf(frame, {"point"}) # {}
      /\ StepsOf(frame, {"drawingText"}) # {}

\* C19: the callbacks that run after the input event that started them
\* (reader.onload, img.onload and their error callbacks) leave the
\* departments list, zoom and pan unchanged; these change only in the step
\* of a user input event.
CallbacksKeepModel ==
  [][(\/ \E i \in Images : imageReaderOnload(i)
      \/ \E i \in Images, s \in Scales : imgOnload(i, s)
      \/ \E i \in Images : imageLoadError(i)
      \/ \E jsonData \in Sheets : excelReaderOnload(jsonData)
      \/ excelReaderOnloadError)
       => UNCHANGED <<departments, zoom, pan>>]_vars

\* C20: after the load of a sheet, for every row after the header row
\* with a name in column A, the value map holds under that name the number
\* in column B of the row.
ColumnBIsStored ==
  [][\A jsonData \in Sheets :
       excelReaderOnload(jsonData) =>
         \A k \in 2..Len(jsonData) :
           jsonData[k].A # <<>> =>
             /\ HasKey(salesData'[1], jsonData[k].A)
             /\ Lookup(salesData'[1], jsonData[k].A)
                  = IF jsonData[k].B # Null THEN jsonData[k].B[1] ELSE 0]_vars

\* ------------------------------------------------------------------------
\* Claims about the drawing target
\* ------------------------------------------------------------------------
\* C21: a step from draw mode either stays in draw mode with the same
\* selected index and the same departments (length, ids and names) or
\* leads to view mode with no selection; no control changes the drawing
\* target or deletes a department during drawing.
DrawTargetOnlyFromView ==
  [][mode = "draw" =>
       \/ /\ mode' = "draw"
          /\ selectedDepartment' = selectedDepartment
          /\ Len(departments') = Len(departments)
          /\ \A i \in 1..Len(departments) :
               /\ departments'[i].id = departments[i].id
               /\ departments'[i].name = departments[i].name
       \/ /\ mode' = "view"
          /\ selectedDepartment' = Null]_vars

\* Finish Area has left draw mode with two departments listed
DrawTargetOnlyFromViewWitness ==
  /\ lastEvent = Event("finishDrawing", "ok")
  /\ mode = "view"
  /\ selectedDepartment = Null
  /\ Len(departments) = 2

\* C22: a click in draw mode at offset d of the displayed canvas appends
\* to the department at selectedDepartment exactly the point
\* ((d * s) - pan) / zoom per axis, s being the buffer ratio.
ClickStoresImagePoint ==
  [][\A d \in Positions :
       (/\ handleCanvasClick(d)
        /\ mode = "draw"
        /\ selectedDepartment # Null
        /\ HasIndex(departments, selectedDepartment[1])) =>
         LET s == R(canvasScale)
             point == Pt(RDiv(RSub(RMul(d.x, s), pan.x), zoom),
                         RDiv(RSub(RMul(d.y, s), pan.y), zoom))
         IN  At(departments', selectedDepartment[1]).coords =
               Append(At(departments, selectedDepartment[1]).coords, point)]_vars

\* a click has added a point on a canvas of buffer ratio 2 under a zoom
\* other than 1 and a pan other than (0,0)
ClickStoresImagePointWitness ==
  /\ lastEvent = Event("handleCanvasClick", "ok")
  /\ mode = "draw"
  /\ canvasScale = 2
  /\ zoom # R(1)
  /\ pan # Pt(R(0), R(0))
  /\ selectedDepartment # Null
  /\ Len(At(departments, selectedDepartment[1]).coords) >= 2

\* C23: a canvas click in draw mode, and Clear Points, change only the
\* coords of the department at selectedDepartment: the other coords, every
\* id, name and sales, the length and order of the list, mode,
\* selectedDepartment, zoom and pan are unchanged, and Clear Points leaves
\* the active department without points.
ClickChangesActiveCoordsOnly ==
  [][(/\ mode = "draw"
      /\ selectedDepartment # Null
      /\ \/ \E p \in Positions : handleCanvasClick(p)
         \/ clearCurrentDepartmentPoints) =>
       /\ Len(departments') = Len(departments)
       /\ \A i \in 1..Len(departments) :
            /\ departments'[i].id = departments[i].id
            /\ departments'[i].name = departments[i].name
            /\ departments'[i].sales = departments[i].sales
            /\ i # selectedDepartment[1] + 1 =>
                 departments'[i].coords = departments[i].coords
       /\ UNCHANGED <<mode, selectedDepartment, zoom, pan>>
       /\ clearCurrentDepartmentPoints =>
            At(departments', selectedDepartment[1]).coords = <<>>]_vars

\* a click has added a point to one of two departments while the other
\* has points of its own
ClickChangesActiveCoordsOnlyWitness ==
  /\ lastEvent = Event("handleCanvasClick", "ok")
  /\ mode = "draw"
  /\ selectedDepartment # Null
  /\ Len(departments) = 2
  /\ \A i \in 1..2 : departments[i].coords # <<>>
  /\ departments[1].coords # departments[2].coords

\* ------------------------------------------------------------------------
\* Claims about the intensity
\* ------------------------------------------------------------------------
\* C24: in a synthesized heat layer a department whose sales is exactly 0
\* has intensity 0 (the power of 0), not the minimum 0.3.
ZeroValueNotBoosted ==
  generateHeatmap # Null =>
    \A k \in 1..Len(generateHeatmap[1].fills) :
      LET fill == generateHeatmap[1].fills[k]
      IN  At(departments, fill.dept).sales = 0 =>
            fill.intensity = Pow(R(0))

\* an intensity is a number of [0.3, 1]
InUnitRange(i) == i = Minimum \/ (i.kind = "pow" /\ RLe(i.base, R(1)))

\* i <= j for two intensities that are numbers: the minimum is below every
\* power kept, and the power grows with its base
IntensityLe(i, j) ==
  /\ i.kind # "NaN"
  /\ j.kind # "NaN"
  /\ \/ i = Minimum
     \/ i.kind = "pow" /\ j.kind = "pow" /\ RLe(i.base, j.base)

\* C25: in a synthesized heat layer, of two departments with sales
\* v1 < v2 <= maxSales the second has an intensity at least that of the
\* first, and both intensities lie in [0.3, 1].
IntensityMonotone ==
  generateHeatmap # Null =>
    \A k1, k2 \in 1..Len(generateHeatmap[1].fills) :
      LET fill1 == generateHeatmap[1].fills[k1]
          fill2 == generateHeatmap[1].fills[k2]
          v1 == At(departments, fill1.dept).sales
          v2 == At(departments, fill2.dept).sales
      IN  (v1 < v2 /\ v2 <= maxSales) =>
            /\ IntensityLe(fill1.intensity, fill2.intensity)
            /\ InUnitRange(fill1.intensity)
            /\ InUnitRange(fill2.intensity)

\* ------------------------------------------------------------------------
\* Claims about mode and selection
\* ------------------------------------------------------------------------
\* C28: in every reachable state mode is "view" exactly when
\* selectedDepartment is null and "draw" exactly when it is a number.
ModeMatchesSelection ==
  /\ mode \in {"view", "draw"}
  /\ mode = "view" <=> selectedDepartment = Null
  /\ mode = "draw" <=> (selectedDepartment # Null
                        /\ selectedDepartment[1] \in Nat)

\* Finish Area has returned to view mode with two departments listed
ModeMatchesSelectionWitness ==
  /\ lastEvent = Event("finishDrawing", "ok")
  /\ mode = "view"
  /\ Len(departments) = 2
  /\ Len(departments[2].coords) = 3

\* C29: in every reachable state in draw mode selectedDepartment is an
\* index of the list, so the drawing controls are shown and Cancel Draw
\* leads to view mode.
DrawSelectionValid ==
  mode = "draw" =>
    /\ selectedDepartment # Null
    /\ 0 <= selectedDepartment[1]
    /\ selectedDepartment[1] < Len(departments)
    /\ DrawingControlsShown
    /\ ENABLED cancelDraw

\* Edit Area has made the second of two departments the active one
DrawSelectionValidWitness ==
  /\ lastEvent = Event("editArea", "ok")
  /\ mode = "draw"
  /\ selectedDepartment = Some(1)
  /\ Len(departments) = 2

\* ------------------------------------------------------------------------
\* Claims about the component of heatmap.jsx
\* ------------------------------------------------------------------------
\* C26: in the component of heatmap.jsx, no two departments of the list
\* have the same name.
JsxNoDuplicateNames ==
  \A i, j \in 1..Len(jsxDepartments) :
    i # j => jsxDepartments[i].name # jsxDepartments[j].name

\* C27: in the component of heatmap.jsx, the Delete button of a department
\* other than the selected one, pressed in draw mode, leaves a selection
\* that denotes the department it denoted before, so that the next click
\* adds its point to that department.
JsxDeleteKeepsActive ==
  [][\A index \in 0..(MaxDepts - 1) :
       (/\ jsxMode = "draw"
        /\ jsxSelectedDepartment # Null
        /\ HasIndex(jsxDepartments, jsxSelectedDepartment[1])
        /\ index # jsxSelectedDepartment[1]
        /\ jsxDeleteButton(index))
       => /\ jsxMode' = "draw"
          /\ jsxSelectedDepartment' # Null
          /\ HasIndex(jsxDepartments', jsxSelectedDepartment'[1])
          /\ At(jsxDepartments', jsxSelectedDepartment'[1])
               = At(jsxDepartments, jsxSelectedDepartment[1])]_vars

\* ------------------------------------------------------------------------
\* Claims about two floor plan loads
\* ------------------------------------------------------------------------
\* C30: once the loads of the floor plans selected have all completed, the
\* floor plan is the file selected last; and once the file selected last
\* is shown, the completion of the load of an earlier file changes neither
\* the floor plan nor the departments.
LastSelectedImageWins ==
  /\ []((/\ fileInput # Null
         /\ floorPlanImage # Null
         /\ \A i \in Images : imageLoads[i] = "idle")
        => floorPlanImage = fileInput)
  /\ [][\A i \in Images :
          (/\ imgOnload(i, 1)
           /\ fileInput # Some(i)
           /\ floorPlanImage = fileInput) =>
            /\ floorPlanImage' = floorPlanImage
            /\ departments' = departments]_vars

====
